---- MODULE Spec2Model ----
(***************************************************************************)
(* A model of the address-lookup-table program (src/src/processor.rs,      *)
(* src/src/state.rs, src/src/entrypoint.rs): one lookup-table account, the *)
(* five instruction handlers, and the host services they consume (clock,   *)
(* SlotHashes, rent, the system program's CreateAccount and Transfer).     *)
(*                                                                         *)
(* Every handler is an operator from the world at entry to the result and  *)
(* the world AS THE HANDLER LEFT IT at return; the host keeps that world   *)
(* only when the result is Ok (a failed instruction's effects are          *)
(* discarded by the runtime).  `last` records the last step: which         *)
(* operation ran, what it returned, and whether the handler had written    *)
(* anything by the time it returned.                                       *)
(***************************************************************************)
EXTENDS Integers, Sequences, FiniteSets, TLC

VARIABLES
  slot,        \* the Clock sysvar's slot
  slotHashes,  \* the SlotHashes sysvar's slots, the most recent first
  lt,          \* the lookup-table account
  payer,       \* the payer's lamports
  recipient,   \* the recipient's lamports
  extends,     \* Extends that have succeeded on the table (bounds the runs)
  slotStart,   \* entries the table held before its first Extend of this slot
               \* (-1: no Extend has succeeded on it in this slot)
  last         \* the last step: [op, res, wrote]

vars == <<slot, slotHashes, lt, payer, recipient, extends, slotStart, last>>

(* ------------------------------ bounds -------------------------------- *)

\* The clock stops advancing at this slot.
MaxSlot == 2
\* No more than this many Extends succeed on one table.
MaxExtends == 2
\* Capacity of the SlotHashes window (512 on the host, scaled down so that a
\* slot can leave the window within MaxSlot).
MAX_ENTRIES == 1
\* Largest value of a u64 / usize (2^64 - 1 in the build; scaled to 2^30 - 1,
\* TLC's integers being 32 bits wide).
U64_MAX == 1073741823
\* Lamports the payer starts with, and lamports a third party may send to the
\* table account.
PayerInit == 12000
FundAmount == 20000
\* What the recipient's balance lacks to U64_MAX at the start: room for the
\* balance of an empty table, not for that of a large one.
RecipientRoom == 1000

(* --------------------------- program constants ------------------------ *)

LOOKUP_TABLE_MAX_ADDRESSES == 256
LOOKUP_TABLE_META_SIZE == 56
PUBKEY_BYTES == 32
\* Rent sysvar: bytes charged on top of the data, and lamports per byte
\* (lamports_per_byte_year * exemption_threshold; scaled from 6960).
ACCOUNT_STORAGE_OVERHEAD == 128
LAMPORTS_PER_BYTE == 2

SlotMAX == U64_MAX

PROGRAM_ID == "AddressLookupTab1e"
SYSTEM_PROGRAM == "System"
SLOTHASHES_ID == <<"SysvarS1otHashes">>
ZeroKey == "0"
Authorities == {"A1", "A2"}
RECIPIENT == "R"

\* The addresses a client stores; ZeroAddr is 32 zero bytes.
ZeroAddr == "z"
Addrs == <<"a", "b">>

(* ----------------------------- host: keys ------------------------------ *)

RECURSIVE to_le_bytes(_, _)
\* n.to_le_bytes() for an integer of k bytes: the least significant first.
to_le_bytes(n, k) ==
  IF k = 0 THEN <<>> ELSE <<n % 256>> \o to_le_bytes(n \div 256, k - 1)

\* Stand-in for "the hash of the seeds is on the ed25519 curve": a fixed
\* predicate of the seeds, as the real one is.
OnCurve(seeds) == (seeds[2][1] + seeds[3][1]) % 2 = 0

InvalidSeeds == <<"InvalidSeeds">>

\* create_program_address(seeds, program_id): the (collision-free) hash of the
\* seeds and the program id, or InvalidSeeds when it falls on the curve.
create_program_address(seeds, program_id) ==
  IF OnCurve(seeds) THEN InvalidSeeds ELSE <<"pda", program_id, seeds>>

\* The table account's address: derived from authority A1, slot 0, bump 255.
LT_KEY == create_program_address(<<"A1", to_le_bytes(0, 8), <<255>>>>, PROGRAM_ID)

(* --------------------------- host: sysvars ----------------------------- *)

Max(a, b) == IF a >= b THEN a ELSE b
\* saturating_sub with its operands exchanged.
saturating_sub_swapped(a, b) == IF b >= a THEN b - a ELSE 0

saturating_sub(a, b) == IF a >= b THEN a - b ELSE 0
saturating_add(a, b) == IF a + b > U64_MAX THEN U64_MAX ELSE a + b
\* saturating_mul leaving out the factor.
saturating_mul_no_factor(a, b) == a

saturating_mul(a, b) == IF a * b > U64_MAX THEN U64_MAX ELSE a * b

\* Rent::minimum_balance(data_len)
minimum_balance(data_len) == (ACCOUNT_STORAGE_OVERHEAD + data_len) * LAMPORTS_PER_BYTE

\* slot_hashes.entries().iter().any(|e| e.slot() == s)
SlotHashesContains(s) == \E i \in 1..Len(slotHashes) : slotHashes[i] = s

(* --------------------------- the table account ------------------------- *)

ZeroHeader ==
  [discriminator |-> 0, deactivation_slot |-> 0, last_extended_slot |-> 0,
   last_extended_slot_start_index |-> 0, authority_tag |-> 0,
   authority |-> ZeroKey, _padding |-> 0]

\* An account the system program owns, with no data.
EmptyAccount ==
  [owner |-> SYSTEM_PROGRAM, lamports |-> 0, data_len |-> 0,
   hdr |-> ZeroHeader, addrs |-> <<>>]

World == [lt |-> lt, payer |-> payer, recipient |-> recipient]

Ret(res, w) == [res |-> res, w |-> w]

(* ------------------------ host: system program ------------------------- *)

\* instructions::CreateAccount{from, to, lamports, space, owner}.invoke_signed:
\* the system program refuses an account that already holds lamports or
\* data or is not its own, and a payer that cannot pay; otherwise
\* it moves the lamports, allocates `space` zero bytes and assigns the owner.
CreateAccount(w, lamports, space, owner) ==
  IF w.lt.lamports > 0 \/ w.lt.data_len > 0 \/ w.lt.owner # SYSTEM_PROGRAM
  THEN Ret("AccountAlreadyInUse", w)
  ELSE IF w.payer < lamports THEN Ret("InsufficientFunds", w)
  ELSE Ret("Ok",
           [w EXCEPT !.payer = @ - lamports,
                     !.lt = [owner |-> owner, lamports |-> lamports,
                             data_len |-> space, hdr |-> ZeroHeader,
                             addrs |-> <<>>]])

\* instructions::Transfer{from: payer, to: table, lamports}.invoke
Transfer(w, lamports) ==
  IF w.payer < lamports THEN Ret("InsufficientFunds", w)
  ELSE Ret("Ok", [w EXCEPT !.payer = @ - lamports, !.lt.lamports = @ + lamports])

(* ------------------------------ state.rs ------------------------------- *)

\* serialize_new_lookup_table leaving deactivation_slot at the zero the fresh
\* buffer holds.
serialize_new_lookup_table_no_sentinel(hdr, authority_key) ==
  [hdr EXCEPT !.discriminator = 1,
              !.last_extended_slot = 0,
              !.last_extended_slot_start_index = 0,
              !.authority_tag = 1,
              !.authority = authority_key,
              !._padding = 0]

\* serialize_new_lookup_table(data, authority_key): bytes 0..4 and the
\* LookupTableMeta behind them.
serialize_new_lookup_table(hdr, authority_key) ==
  [hdr EXCEPT !.discriminator = 1,
              !.deactivation_slot = SlotMAX,
              !.last_extended_slot = 0,
              !.last_extended_slot_start_index = 0,
              !.authority_tag = 1,
              !.authority = authority_key,
              !._padding = 0]

(* ----------------------------- processor.rs ---------------------------- *)

\* required_lamports forgetting what the account already holds.
required_lamports_full(data_len, lamports) == Max(minimum_balance(data_len), 1)

\* What the rent-exempt minimum for data_len bytes still lacks.
required_lamports(data_len, lamports) ==
  saturating_sub(Max(minimum_balance(data_len), 1), lamports)

\* Mutants of the checks below (each is the definition named, with the slip
\* described).
\* slot_is_recent without the look-up: every slot passes.
slot_is_recent_unchecked(untrusted_recent_slot) == TRUE
\* table_key_matches without the comparison.
table_key_matches_unchecked(derived_table_key) == TRUE
\* already_owned never recognising a retry.
already_owned_never(acct) == FALSE

\* slot_is_recent taking every slot up to the clock's for recent.
slot_is_recent_not_in_future(untrusted_recent_slot) == untrusted_recent_slot <= slot

\* slot_hashes.entries().iter().any(|e| e.slot() == untrusted_recent_slot)
slot_is_recent(untrusted_recent_slot) == SlotHashesContains(untrusted_recent_slot)

\* lookup_table_info.key() == &derived_table_key
table_key_matches(derived_table_key) == LT_KEY = derived_table_key

\* lookup_table_info.owner() == program_id: a Create that is a retry.
already_owned(acct) == acct.owner = PROGRAM_ID

\* process_create_lookup_table.  in: authority (key), payer_signer,
\* slot_hashes_key, untrusted_recent_slot, bump_seed.
process_create_lookup_table(w, in) ==
  IF ~in.payer_signer THEN Ret("MissingRequiredSignature", w)
  ELSE IF in.slot_hashes_key # SLOTHASHES_ID THEN Ret("InvalidArgument", w)
  ELSE IF ~slot_is_recent(in.untrusted_recent_slot)
  THEN Ret("InvalidInstructionData", w)
  ELSE
    LET derivation_slot == in.untrusted_recent_slot
        derived_table_key ==
          create_program_address(
            <<in.authority, to_le_bytes(derivation_slot, 8), <<in.bump_seed>>>>,
            PROGRAM_ID)
    IN
    IF derived_table_key = InvalidSeeds THEN Ret("InvalidSeeds", w)
    ELSE IF ~table_key_matches(derived_table_key) THEN Ret("InvalidArgument", w)
    ELSE IF already_owned(w.lt) THEN Ret("Ok", w)
    ELSE
      LET cpi == CreateAccount(
                   w, required_lamports(LOOKUP_TABLE_META_SIZE, w.lt.lamports),
                   LOOKUP_TABLE_META_SIZE, PROGRAM_ID)
      IN
      IF cpi.res # "Ok" THEN cpi
      ELSE Ret("Ok",
               [cpi.w EXCEPT !.lt.hdr = serialize_new_lookup_table(@, in.authority)])

\* is_empty_table without the check.
is_empty_table_unchecked(acct) == FALSE
\* freeze_meta clearing the key and leaving the tag.
freeze_meta_keeps_tag(meta) == [meta EXCEPT !.authority = ZeroKey]
\* deactivate_meta writing the neighbouring slot field as well.
deactivate_meta_two_fields(meta, clock_slot) ==
  [meta EXCEPT !.deactivation_slot = clock_slot, !.last_extended_slot = clock_slot]
\* exceeds_capacity without the check, and off by one.
exceeds_capacity_unchecked(new_table_addresses_len) == FALSE
exceeds_capacity_off_by_one(new_table_addresses_len) ==
  new_table_addresses_len > LOOKUP_TABLE_MAX_ADDRESSES + 1

\* meta.authority_tag == 0
is_frozen(meta) == meta.authority_tag = 0

\* authority_matches without the comparison.
authority_matches_unchecked(meta, authority_key) == TRUE

\* meta.authority == *authority_info.key()
authority_matches(meta, authority_key) == meta.authority = authority_key

\* is_deactivated reading every table as active.
is_deactivated_never(meta) == FALSE

\* meta.deactivation_slot != Slot::MAX
is_deactivated(meta) == meta.deactivation_slot # SlotMAX

\* data.len() <= LOOKUP_TABLE_META_SIZE || data[LOOKUP_TABLE_META_SIZE..].is_empty()
is_empty_table(acct) == acct.data_len <= LOOKUP_TABLE_META_SIZE

\* lookup_table_meta.authority_tag = 0; lookup_table_meta.authority = [0; 32]
freeze_meta(meta) == [meta EXCEPT !.authority_tag = 0, !.authority = ZeroKey]

\* lookup_table_meta.deactivation_slot = clock.slot
deactivate_meta(meta, clock_slot) == [meta EXCEPT !.deactivation_slot = clock_slot]

\* new_table_addresses_len > LOOKUP_TABLE_MAX_ADDRESSES
exceeds_capacity(new_table_addresses_len) ==
  new_table_addresses_len > LOOKUP_TABLE_MAX_ADDRESSES

\* process_freeze_lookup_table without the refusal of deactivated tables.
process_freeze_lookup_table_no_deactivated_check(w, in) ==
  LET meta == w.lt.hdr IN
  IF w.lt.owner # PROGRAM_ID THEN Ret("InvalidAccountOwner", w)
  ELSE IF ~in.authority_signer THEN Ret("MissingRequiredSignature", w)
  ELSE IF is_frozen(meta) THEN Ret("Immutable", w)
  ELSE IF ~authority_matches(meta, in.authority) THEN Ret("IncorrectAuthority", w)
  ELSE IF is_empty_table(w.lt) THEN Ret("InvalidInstructionData", w)
  ELSE Ret("Ok", [w EXCEPT !.lt.hdr = freeze_meta(@)])

\* process_freeze_lookup_table comparing the authority's key last.
process_freeze_lookup_table_authority_last(w, in) ==
  LET meta == w.lt.hdr IN
  IF w.lt.owner # PROGRAM_ID THEN Ret("InvalidAccountOwner", w)
  ELSE IF ~in.authority_signer THEN Ret("MissingRequiredSignature", w)
  ELSE IF is_frozen(meta) THEN Ret("Immutable", w)
  ELSE IF is_deactivated(meta) THEN Ret("InvalidArgument", w)
  ELSE IF is_empty_table(w.lt) THEN Ret("InvalidInstructionData", w)
  ELSE IF ~authority_matches(meta, in.authority) THEN Ret("IncorrectAuthority", w)
  ELSE Ret("Ok", [w EXCEPT !.lt.hdr = freeze_meta(@)])

\* process_freeze_lookup_table.  in: authority (key), authority_signer.
process_freeze_lookup_table(w, in) ==
  LET meta == w.lt.hdr IN
  IF w.lt.owner # PROGRAM_ID THEN Ret("InvalidAccountOwner", w)
  ELSE IF ~in.authority_signer THEN Ret("MissingRequiredSignature", w)
  ELSE IF is_frozen(meta) THEN Ret("Immutable", w)
  ELSE IF ~authority_matches(meta, in.authority) THEN Ret("IncorrectAuthority", w)
  ELSE IF is_deactivated(meta) THEN Ret("InvalidArgument", w)
  ELSE IF is_empty_table(w.lt) THEN Ret("InvalidInstructionData", w)
  ELSE Ret("Ok", [w EXCEPT !.lt.hdr = freeze_meta(@)])

\* (data.len() - LOOKUP_TABLE_META_SIZE) / PUBKEY_BYTES of a buffer that holds
\* a header.
EntryCount(acct) == (acct.data_len - LOOKUP_TABLE_META_SIZE) \div PUBKEY_BYTES

\* data.len() - LOOKUP_TABLE_META_SIZE on a usize: below zero it wraps
\* around, or panics when the build checks overflow.
usize_sub(a, b, overflow_checks) ==
  IF a >= b THEN a - b
  ELSE IF overflow_checks THEN -1
  ELSE U64_MAX + 1 + a - b

\* lookup_table_info.resize(new_len): new bytes are zero.
resize(acct, new_len) ==
  LET n == IF new_len >= LOOKUP_TABLE_META_SIZE
           THEN (new_len - LOOKUP_TABLE_META_SIZE) \div PUBKEY_BYTES ELSE 0
  IN [acct EXCEPT !.data_len = new_len,
                  !.addrs = [i \in 1..n |-> IF i <= Len(acct.addrs)
                                            THEN acct.addrs[i] ELSE ZeroAddr]]

\* copy_from_slice writing from the first entry instead of the offset.
copy_from_slice_at_start(addrs, start_index, new_addresses) ==
  [i \in 1..Len(addrs) |->
     IF i <= Len(new_addresses) THEN new_addresses[i]
     ELSE IF i > start_index THEN ZeroAddr ELSE addrs[i]]

\* data[offset..].copy_from_slice(new_addresses), offset counted in entries.
copy_from_slice(addrs, start_index, new_addresses) ==
  [i \in 1..Len(addrs) |->
     IF i > start_index /\ i - start_index <= Len(new_addresses)
     THEN new_addresses[i - start_index] ELSE addrs[i]]

\* extended_in_other_slot taking every Extend for the first of its slot.
extended_in_other_slot_always(meta, clock_slot) == TRUE

\* clock.slot != meta.last_extended_slot
extended_in_other_slot(meta, clock_slot) == clock_slot # meta.last_extended_slot

\* process_extend_lookup_table.  in: authority (key), authority_signer,
\* payer_signer, lt_writable, new_addresses (a sequence of 32-byte
\* addresses, as the entrypoint slices them), overflow_checks (the build).
process_extend_lookup_table(w, in) ==
  LET meta == w.lt.hdr
      old_table_addresses_len ==
        usize_sub(w.lt.data_len, LOOKUP_TABLE_META_SIZE, in.overflow_checks)
          \div PUBKEY_BYTES
      new_table_addresses_len ==
        saturating_add(old_table_addresses_len, Len(in.new_addresses))
      w1 == IF extended_in_other_slot(meta, slot)
            THEN [w EXCEPT !.lt.hdr.last_extended_slot = slot,
                           !.lt.hdr.last_extended_slot_start_index =
                              old_table_addresses_len % 256]
            ELSE w
      new_table_data_len ==
        LOOKUP_TABLE_META_SIZE + saturating_mul(new_table_addresses_len, PUBKEY_BYTES)
      w2 == [w1 EXCEPT !.lt = resize(@, new_table_data_len)]
      offset == LOOKUP_TABLE_META_SIZE
                  + saturating_mul(old_table_addresses_len, PUBKEY_BYTES)
      w3 == [w2 EXCEPT !.lt.addrs =
                copy_from_slice(@, old_table_addresses_len, in.new_addresses)]
      required == required_lamports(new_table_data_len, w3.lt.lamports)
  IN
  IF w.lt.owner # PROGRAM_ID THEN Ret("InvalidAccountOwner", w)
  ELSE IF ~in.authority_signer THEN Ret("MissingRequiredSignature", w)
  ELSE IF is_frozen(meta) THEN Ret("Immutable", w)
  ELSE IF ~authority_matches(meta, in.authority) THEN Ret("IncorrectAuthority", w)
  ELSE IF is_deactivated(meta) THEN Ret("InvalidArgument", w)
  ELSE IF w.lt.data_len < LOOKUP_TABLE_META_SIZE /\ in.overflow_checks
  THEN Ret("Panic", w)
  ELSE IF old_table_addresses_len >= LOOKUP_TABLE_MAX_ADDRESSES
  THEN Ret("InvalidArgument", w)
  ELSE IF Len(in.new_addresses) = 0 THEN Ret("InvalidInstructionData", w)
  ELSE IF exceeds_capacity(new_table_addresses_len)
  THEN Ret("InvalidInstructionData", w)
  ELSE IF new_table_data_len > U64_MAX THEN Ret("ArithmeticOverflow", w1)
  ELSE IF ~in.lt_writable THEN Ret("Immutable", w1)
  ELSE IF offset > U64_MAX THEN Ret("ArithmeticOverflow", w2)
  ELSE IF offset >= w2.lt.data_len THEN Ret("InvalidArgument", w2)
  ELSE IF required > 0 /\ ~in.payer_signer THEN Ret("MissingRequiredSignature", w3)
  ELSE IF required > 0 THEN Transfer(w3, required)
  ELSE Ret("Ok", w3)

\* process_deactivate_lookup_table storing the slot before it tests whether
\* the table is deactivated already.
process_deactivate_lookup_table_write_first(w, in) ==
  LET meta == w.lt.hdr
      w1 == [w EXCEPT !.lt.hdr = deactivate_meta(@, slot)]
  IN
  IF w.lt.owner # PROGRAM_ID THEN Ret("InvalidAccountOwner", w)
  ELSE IF ~in.authority_signer THEN Ret("MissingRequiredSignature", w)
  ELSE IF is_frozen(meta) THEN Ret("Immutable", w)
  ELSE IF ~authority_matches(meta, in.authority) THEN Ret("IncorrectAuthority", w)
  ELSE IF is_deactivated(meta) THEN Ret("InvalidArgument", w1)
  ELSE Ret("Ok", w1)

\* process_deactivate_lookup_table.  in: authority (key), authority_signer.
process_deactivate_lookup_table(w, in) ==
  LET meta == w.lt.hdr IN
  IF w.lt.owner # PROGRAM_ID THEN Ret("InvalidAccountOwner", w)
  ELSE IF ~in.authority_signer THEN Ret("MissingRequiredSignature", w)
  ELSE IF is_frozen(meta) THEN Ret("Immutable", w)
  ELSE IF ~authority_matches(meta, in.authority) THEN Ret("IncorrectAuthority", w)
  ELSE IF is_deactivated(meta) THEN Ret("InvalidArgument", w)
  ELSE Ret("Ok", [w EXCEPT !.lt.hdr = deactivate_meta(@, slot)])

\* position never finding the slot.
SlotHashesPosition_none(s) == -1

\* position finding every slot at the front of the window.
SlotHashesPosition_front(s) == 0

\* slot_hashes.position(s): the index of s in the window, or -1 for None.
SlotHashesPosition(s) ==
  IF SlotHashesContains(s)
  THEN (CHOOSE i \in 1..Len(slotHashes) : slotHashes[i] = s) - 1
  ELSE -1

\* checked_add forgetting the recipient's own balance.
checked_add_left_only(a, b) == a

\* a.checked_add(b): the sum, which the caller refuses above u64::MAX.
checked_add(a, b) == a + b

\* process_close_lookup_table.  in: authority (key), authority_signer,
\* recipient (key), recipient_writable, lt_writable, slot_hashes_key.
process_close_lookup_table(w, in) ==
  LET meta == w.lt.hdr
      current_slot == slot
      new_recipient_lamports == checked_add(w.lt.lamports, w.recipient)
      w1 == [w EXCEPT !.recipient = new_recipient_lamports]
      w2 == [w1 EXCEPT !.lt = [resize(@, 0) EXCEPT !.lamports = 0]]
  IN
  IF w.lt.owner # PROGRAM_ID THEN Ret("InvalidAccountOwner", w)
  ELSE IF ~in.authority_signer THEN Ret("MissingRequiredSignature", w)
  ELSE IF LT_KEY = in.recipient THEN Ret("InvalidArgument", w)
  ELSE IF is_frozen(meta) THEN Ret("Immutable", w)
  ELSE IF ~authority_matches(meta, in.authority) THEN Ret("IncorrectAuthority", w)
  ELSE IF ~is_deactivated(meta) THEN Ret("InvalidArgument", w)
  ELSE IF meta.deactivation_slot = current_slot THEN Ret("InvalidArgument", w)
  ELSE IF in.slot_hashes_key # SLOTHASHES_ID THEN Ret("InvalidArgument", w)
  ELSE IF SlotHashesPosition(meta.deactivation_slot) >= 0 THEN Ret("InvalidArgument", w)
  ELSE IF new_recipient_lamports > U64_MAX THEN Ret("ArithmeticOverflow", w)
  ELSE IF ~in.recipient_writable THEN Ret("Immutable", w)
  ELSE IF ~in.lt_writable THEN Ret("Immutable", w1)
  ELSE Ret("Ok", w2)

(* ------------------------------ inputs --------------------------------- *)

\* The slots and bump seeds a Create may name.
RecentSlots == {0, 1, MaxSlot + 1}
BumpSeeds == {254, 255}
SlotHashesKeys == {SLOTHASHES_ID, <<"other">>}
\* How many addresses an Extend may carry.
ExtendCounts == {0, 3, 253, 256, 257}

\* k addresses, alternating between the two of Addrs.
NewAddresses(k) == [i \in 1..k |-> Addrs[((i + 1) % 2) + 1]]

CreateInputs ==
  [authority : Authorities, payer_signer : BOOLEAN,
   slot_hashes_key : SlotHashesKeys, untrusted_recent_slot : RecentSlots,
   bump_seed : BumpSeeds]

AuthorityInputs == [authority : Authorities, authority_signer : BOOLEAN]

ExtendInputs ==
  [authority : Authorities, authority_signer : BOOLEAN, payer_signer : BOOLEAN,
   lt_writable : BOOLEAN,
   new_addresses : {NewAddresses(k) : k \in ExtendCounts},
   overflow_checks : BOOLEAN]

CloseInputs ==
  [authority : Authorities, authority_signer : BOOLEAN,
   recipient : {<<RECIPIENT>>, LT_KEY}, recipient_writable : BOOLEAN,
   lt_writable : BOOLEAN, slot_hashes_key : SlotHashesKeys]

(* ------------------------------ actions -------------------------------- *)

\* What a handler sees behind `data.as_mut_ptr().add(4) as *mut
\* LookupTableMeta`: the header, when the buffer holds one; past the end of a
\* shorter buffer, whatever the memory holds: the bytes left there, or zeros.
HeaderViews(acct) ==
  IF acct.data_len >= LOOKUP_TABLE_META_SIZE THEN {acct.hdr}
  ELSE {acct.hdr, ZeroHeader}

\* Whether the build checks arithmetic overflow shows only on a buffer
\* shorter than the header.
BuildModes(acct) ==
  IF acct.data_len >= LOOKUP_TABLE_META_SIZE THEN {FALSE} ELSE BOOLEAN

\* The Extend inputs the build in use can meet on this account.
ExtendCalls(acct) == {i \in ExtendInputs : i.overflow_checks \in BuildModes(acct)}

\* One instruction: the handler runs from w0 and returns r; the runtime keeps
\* the handler's world when it returned Ok and discards it otherwise.
Step(op, r, w0) ==
  /\ last' = [op |-> op, res |-> r.res, wrote |-> r.w # w0]
  /\ IF r.res = "Ok"
     THEN /\ lt' = r.w.lt
          /\ payer' = r.w.payer
          /\ recipient' = r.w.recipient
     ELSE UNCHANGED <<lt, payer, recipient>>
  /\ extends' = IF r.res # "Ok" THEN extends
                ELSE IF op = "Extend" THEN extends + 1
                ELSE IF op = "Create" /\ r.w # w0 THEN 0
                ELSE extends
  /\ slotStart' = IF r.res # "Ok" THEN slotStart
                  ELSE IF op = "Extend" /\ slotStart = -1
                  THEN Len(w0.lt.addrs)
                  ELSE IF op = "Create" /\ r.w # w0 THEN -1
                  ELSE slotStart
  /\ UNCHANGED <<slot, slotHashes>>

Seen(h) == [World EXCEPT !.lt.hdr = h]

\* Each handler action takes one of the results the handler can return in the
\* current state, over all the inputs of its input set.
Create ==
  \E r \in {process_create_lookup_table(World, in) : in \in CreateInputs} :
    Step("Create", r, World)

Freeze ==
  \E h \in HeaderViews(lt) :
    \E r \in {process_freeze_lookup_table(Seen(h), in) : in \in AuthorityInputs} :
      Step("Freeze", r, Seen(h))

Extend ==
  /\ extends < MaxExtends
  /\ \E h \in HeaderViews(lt) :
       \E r \in {process_extend_lookup_table(Seen(h), in) : in \in ExtendCalls(lt)} :
         Step("Extend", r, Seen(h))

Deactivate ==
  \E h \in HeaderViews(lt) :
    \E r \in {process_deactivate_lookup_table(Seen(h), in) : in \in AuthorityInputs} :
      Step("Deactivate", r, Seen(h))

Close ==
  \E h \in HeaderViews(lt) :
    \E r \in {process_close_lookup_table(Seen(h), in) : in \in CloseInputs} :
      Step("Close", r, Seen(h))

Env(op) == last' = [op |-> op, res |-> "Ok", wrote |-> FALSE]

\* The clock moves to the next slot; the slot left behind enters the
\* SlotHashes window (unless the window lists it already, as it does slot 0
\* from the start), which keeps the MAX_ENTRIES most recent.
Tick ==
  /\ slot + 1 <= MaxSlot
  /\ slot' = slot + 1
  /\ slotHashes' = IF SlotHashesContains(slot) THEN slotHashes
                   ELSE SubSeq(<<slot>> \o slotHashes, 1,
                               IF Len(slotHashes) + 1 > MAX_ENTRIES
                               THEN MAX_ENTRIES ELSE Len(slotHashes) + 1)
  /\ slotStart' = -1
  /\ Env("Tick")
  /\ UNCHANGED <<lt, payer, recipient, extends>>

\* Anyone may send lamports to the table's address.
Fund ==
  /\ lt.lamports < FundAmount
  /\ lt' = [lt EXCEPT !.lamports = @ + FundAmount]
  /\ Env("Fund")
  /\ UNCHANGED <<slot, slotHashes, payer, recipient, extends, slotStart>>

\* At the end of a transaction the runtime reclaims an account left without
\* lamports: it is the system program's again, and empty.
HostPurge ==
  /\ lt.owner = PROGRAM_ID
  /\ lt.lamports = 0
  /\ lt' = EmptyAccount
  /\ Env("HostPurge")
  /\ UNCHANGED <<slot, slotHashes, payer, recipient, extends, slotStart>>

Init ==
  /\ slot = 0
  /\ slotHashes = <<0>>
  /\ lt = EmptyAccount
  /\ payer = PayerInit
  /\ recipient = U64_MAX - RecipientRoom
  /\ extends = 0
  /\ slotStart = -1
  /\ last = [op |-> "Init", res |-> "Ok", wrote |-> FALSE]

Next ==
  \/ Create
  \/ Freeze
  \/ Extend
  \/ Deactivate
  \/ Close
  \/ Tick
  \/ Fund
  \/ HostPurge

Spec == Init /\ [][Next]_vars

\* The clock keeps advancing: a slot that can end does end.
FairSpec == Spec /\ WF_vars(Tick)

(* ------------------------------ claims --------------------------------- *)

\* The worlds a handler may run from in the current state.
Worlds == {Seen(h) : h \in HeaderViews(lt)}

\* The address derived from {authority, slot as 8 little-endian bytes, bump}
\* under the program's identity.
DerivedAddress(authority, recent_slot, bump_seed) ==
  <<"pda", PROGRAM_ID, <<authority, to_le_bytes(recent_slot, 8), <<bump_seed>>>>>>

InWindow(s) == \E i \in DOMAIN slotHashes : slotHashes[i] = s

\* The header a Create writes.
FreshHeader(authority_key) ==
  [discriminator |-> 1, deactivation_slot |-> U64_MAX, last_extended_slot |-> 0,
   last_extended_slot_start_index |-> 0, authority_tag |-> 1,
   authority |-> authority_key, _padding |-> 0]

\* A table that holds its header and has no authority.
Frozen ==
  /\ lt.owner = PROGRAM_ID
  /\ lt.data_len >= LOOKUP_TABLE_META_SIZE
  /\ lt.hdr.authority_tag = 0

\* C1: on a table the program already owns, a Create that passes the
\* payer-signature, oracle and derived-address checks returns Ok and leaves
\* the header, the addresses, the size and every balance as they were.
C1_CreateIdempotent ==
  lt.owner = PROGRAM_ID =>
    \A in \in CreateInputs :
      ( /\ in.payer_signer
        /\ in.slot_hashes_key = SLOTHASHES_ID
        /\ InWindow(in.untrusted_recent_slot)
        /\ LT_KEY = DerivedAddress(in.authority, in.untrusted_recent_slot, in.bump_seed) )
      => process_create_lookup_table(World, in) = Ret("Ok", World)

\* A Create has just returned Ok without writing, on a table that holds
\* addresses.
C1_Witness ==
  /\ last = [op |-> "Create", res |-> "Ok", wrote |-> FALSE]
  /\ lt.owner = PROGRAM_ID
  /\ lt.data_len > LOOKUP_TABLE_META_SIZE

\* C2: a Create naming a slot that is not in the SlotHashes window fails,
\* whatever the address and bump, and allocates, moves and writes nothing.
C2_CreateStaleSlotFails ==
  \A in \in CreateInputs :
    ~InWindow(in.untrusted_recent_slot) =>
      LET r == process_create_lookup_table(World, in)
      IN r.res # "Ok" /\ r.w = World

\* A Create has just failed as "not a recent slot" on an account that was
\* never created, slot 0 (the slot of the table's address) being out of the
\* window.
C2_Witness ==
  /\ last = [op |-> "Create", res |-> "InvalidInstructionData", wrote |-> FALSE]
  /\ lt = EmptyAccount
  /\ ~InWindow(0)

\* C3: every Create that returns Ok (the retry included) is on the address
\* derived from its authority, its recent slot as 8 little-endian bytes and
\* its bump, the slot being in the window; a Create whose target is not the
\* derived address fails and writes nothing.
C3_CreateOnlyAtDerivedAddress ==
  /\ to_le_bytes(258, 8) = <<2, 1, 0, 0, 0, 0, 0, 0>>
  /\ \A in \in CreateInputs :
       LET r == process_create_lookup_table(World, in)
           derived == DerivedAddress(in.authority, in.untrusted_recent_slot, in.bump_seed)
       IN /\ r.res = "Ok" =>
               /\ LT_KEY = derived
               /\ InWindow(in.untrusted_recent_slot)
               /\ in.authority = "A1" /\ in.untrusted_recent_slot = 0 /\ in.bump_seed = 255
          /\ LT_KEY # derived => r.res # "Ok" /\ r.w = World

\* A Create has just returned Ok, and the table's address is the one derived
\* from the authority it stored.
C3_Witness ==
  /\ last.op = "Create" /\ last.res = "Ok"
  /\ lt.owner = PROGRAM_ID
  /\ LT_KEY = DerivedAddress(lt.hdr.authority, 0, 255)

\* C4: a Create that returns Ok on an account the program does not own yet
\* leaves it owned by the program, 56 bytes long, without entries, its header
\* discriminator 1, deactivation_slot u64::MAX, last_extended_slot 0, start
\* index 0, authority_tag 1, authority the key given, padding 0.
C4_CreateInitialRecord ==
  /\ \A in \in CreateInputs :
       LET r == process_create_lookup_table(World, in)
       IN (lt.owner # PROGRAM_ID /\ r.res = "Ok") =>
            /\ r.w.lt.owner = PROGRAM_ID
            /\ r.w.lt.data_len = 56
            /\ r.w.lt.addrs = <<>>
            /\ r.w.lt.hdr = FreshHeader(in.authority)
  /\ (last.op = "Create" /\ last.res = "Ok" /\ last.wrote) =>
       /\ lt.owner = PROGRAM_ID
       /\ lt.data_len = 56
       /\ lt.addrs = <<>>
       /\ \E a \in Authorities : lt.hdr = FreshHeader(a)

\* A Create has just initialised the table.
C4_Witness ==
  /\ last = [op |-> "Create", res |-> "Ok", wrote |-> TRUE]
  /\ lt.data_len = LOOKUP_TABLE_META_SIZE
  /\ lt.hdr.discriminator = 1

\* C5: a Freeze that returns Ok leaves authority_tag 0 and the authority all
\* zero; on a frozen table every Extend, Deactivate and Freeze fails, with
\* Immutable when the authority account signs (the table being the
\* program's); and a frozen table stays frozen.
C5_FreezeOneWay ==
  /\ []((last.op = "Freeze" /\ last.res = "Ok") =>
          (Frozen /\ lt.hdr.authority = ZeroKey))
  /\ [](Frozen =>
          /\ \A in \in ExtendCalls(lt) :
               LET r == process_extend_lookup_table(World, in)
               IN r.res # "Ok" /\ (in.authority_signer => r.res = "Immutable")
          /\ \A in \in AuthorityInputs :
               LET d == process_deactivate_lookup_table(World, in)
                   f == process_freeze_lookup_table(World, in)
               IN /\ d.res # "Ok" /\ (in.authority_signer => d.res = "Immutable")
                  /\ f.res # "Ok" /\ (in.authority_signer => f.res = "Immutable"))
  /\ [][Frozen => Frozen']_vars

\* Create, Extend with 3 addresses, Freeze, and an Extend that has just
\* failed with Immutable.
C5_Witness ==
  /\ Frozen
  /\ EntryCount(lt) = 3
  /\ last = [op |-> "Extend", res |-> "Immutable", wrote |-> FALSE]

\* C6: a Freeze on a table without entries (size <= 56), or on one whose
\* deactivation_slot is not u64::MAX, fails and leaves authority_tag and
\* authority (and all else) as they were.
C6_FreezeRefusesEmptyAndDeactivated ==
  \A w \in Worlds, in \in AuthorityInputs :
    (w.lt.data_len <= 56 \/ w.lt.hdr.deactivation_slot # U64_MAX) =>
      LET r == process_freeze_lookup_table(w, in)
      IN /\ r.res # "Ok"
         /\ r.w.lt.hdr.authority_tag = w.lt.hdr.authority_tag
         /\ r.w.lt.hdr.authority = w.lt.hdr.authority
         /\ r.w = w

\* A Freeze by the authority has just been refused on a table without
\* entries.
C6_Witness ==
  /\ last = [op |-> "Freeze", res |-> "InvalidInstructionData", wrote |-> FALSE]
  /\ lt.owner = PROGRAM_ID
  /\ lt.data_len = LOOKUP_TABLE_META_SIZE
  /\ lt.hdr.authority_tag = 1

\* C7: the table never holds more than 256 entries.
C7_EntryCountAtMost256 ==
  /\ Len(lt.addrs) <= 256
  /\ lt.data_len >= LOOKUP_TABLE_META_SIZE => EntryCount(lt) <= 256

\* An Extend has just filled the table to 256 entries.
C7_Witness ==
  /\ last.op = "Extend" /\ last.res = "Ok"
  /\ lt.data_len = 56 + 32 * 256
  /\ Len(lt.addrs) = 256

\* C8: an Extend that would bring the table above 256 entries, or that is
\* made on a table of 256 entries, fails and leaves the size, the addresses,
\* the header and every balance as they were.
C8_ExtendOverCapacityWritesNothing ==
  \A w \in Worlds, in \in ExtendCalls(lt) :
    ( /\ w.lt.data_len >= LOOKUP_TABLE_META_SIZE
      /\ \/ EntryCount(w.lt) >= 256
         \/ EntryCount(w.lt) + Len(in.new_addresses) > 256 )
    => LET r == process_extend_lookup_table(w, in)
       IN r.res # "Ok" /\ r.w = w

\* An Extend by the authority has just been refused on a full table that is
\* neither frozen nor deactivated.
C8_Witness ==
  /\ last = [op |-> "Extend", res |-> "InvalidArgument", wrote |-> FALSE]
  /\ lt.owner = PROGRAM_ID
  /\ lt.data_len = 56 + 32 * 256
  /\ lt.hdr.authority_tag = 1
  /\ lt.hdr.deactivation_slot = U64_MAX

\* C9: in an Extend that returns Ok, lamports move from the payer to the
\* table exactly when the table's balance is below the rent-exempt minimum of
\* the new size; then the payer signed and the amount is the shortfall;
\* otherwise no balance changes and the Extend succeeds without the payer's
\* signature too.
C9_ExtendTopUp ==
  \A w \in Worlds, in \in ExtendCalls(lt) :
    LET r == process_extend_lookup_table(w, in)
        new_size == 56 + 32 * (EntryCount(w.lt) + Len(in.new_addresses))
        need == Max(minimum_balance(new_size), 1)
    IN r.res = "Ok" =>
         /\ r.w.recipient = w.recipient
         /\ IF w.lt.lamports < need
            THEN /\ in.payer_signer
                 /\ r.w.lt.lamports = need
                 /\ r.w.payer = w.payer - (need - w.lt.lamports)
            ELSE /\ r.w.lt.lamports = w.lt.lamports
                 /\ r.w.payer = w.payer
                 /\ process_extend_lookup_table(
                      w, [in EXCEPT !.payer_signer = FALSE]).res = "Ok"

\* An Extend has just succeeded on a table whose whole balance came from the
\* payer: the table holds exactly the minimum of its size, and the payer
\* lacks exactly that.
C9_Witness ==
  /\ last.op = "Extend" /\ last.res = "Ok"
  /\ lt.data_len > LOOKUP_TABLE_META_SIZE
  /\ lt.lamports = minimum_balance(lt.data_len)
  /\ payer = PayerInit - lt.lamports

\* C10: a Deactivate that returns Ok sets deactivation_slot to the clock's
\* slot and changes nothing else: not the other header fields, the
\* addresses, the size or any balance.
C10_DeactivateSetsSlotOnly ==
  /\ \A w \in Worlds, in \in AuthorityInputs :
       LET r == process_deactivate_lookup_table(w, in)
       IN r.res = "Ok" =>
            /\ r.w.lt.hdr.deactivation_slot = slot
            /\ r.w = [w EXCEPT !.lt.hdr.deactivation_slot = slot]
  /\ (last.op = "Deactivate" /\ last.res = "Ok") => lt.hdr.deactivation_slot = slot

\* A Deactivate has just succeeded on a table that holds addresses.
C10_Witness ==
  /\ last = [op |-> "Deactivate", res |-> "Ok", wrote |-> TRUE]
  /\ lt.hdr.deactivation_slot = slot
  /\ lt.data_len > LOOKUP_TABLE_META_SIZE

\* A table the program owns whose buffer holds a header.
Live(acct) == acct.owner = PROGRAM_ID /\ acct.data_len >= LOOKUP_TABLE_META_SIZE

\* C11: deactivation_slot is written at most once: a Deactivate on a table
\* whose deactivation_slot is not u64::MAX fails and leaves everything as it
\* was (with the argument error when the stored authority signs); no Extend,
\* no Freeze and no Create on an existing table changes deactivation_slot;
\* and from step to step a deactivated table keeps its deactivation_slot for
\* as long as it holds its header (that is, until it is closed).
C11_DeactivationSlotWrittenOnce ==
  /\ [](\A w \in Worlds :
          /\ \A in \in AuthorityInputs :
               LET d == process_deactivate_lookup_table(w, in)
                   f == process_freeze_lookup_table(w, in)
               IN /\ w.lt.hdr.deactivation_slot # U64_MAX =>
                       /\ d.res # "Ok" /\ d.w = w
                       /\ ( /\ w.lt.owner = PROGRAM_ID
                            /\ in.authority_signer
                            /\ in.authority = w.lt.hdr.authority )
                          => d.res = "InvalidArgument"
                  /\ f.w.lt.hdr.deactivation_slot = w.lt.hdr.deactivation_slot
          /\ \A in \in ExtendCalls(lt) :
               process_extend_lookup_table(w, in).w.lt.hdr.deactivation_slot
                 = w.lt.hdr.deactivation_slot
          /\ \A in \in CreateInputs :
               w.lt.owner = PROGRAM_ID =>
                 process_create_lookup_table(w, in).w.lt.hdr.deactivation_slot
                   = w.lt.hdr.deactivation_slot)
  /\ [][(Live(lt) /\ lt.hdr.deactivation_slot # U64_MAX /\ Live(lt'))
          => lt'.hdr.deactivation_slot = lt.hdr.deactivation_slot]_vars

\* A second Deactivate by the authority has just been refused, in a later
\* slot than the one the table was deactivated in, and the table still holds
\* the earlier slot.
C11_Witness ==
  /\ last = [op |-> "Deactivate", res |-> "InvalidArgument", wrote |-> FALSE]
  /\ Live(lt)
  /\ lt.hdr.deactivation_slot < slot

\* C12: a Close on a table that is not deactivated (deactivation_slot =
\* u64::MAX), or in the slot of its deactivation, or while that slot is still
\* in the SlotHashes window, fails and leaves the table's size and balance
\* and the recipient's balance (and all else) as they were; so a Close that
\* returned Ok has left behind a deactivation slot that is set, is older
\* than the clock's slot and is out of the window.
C12_CloseWaitsForDeactivation ==
  /\ \A w \in Worlds, in \in CloseInputs :
       ( \/ w.lt.hdr.deactivation_slot = U64_MAX
         \/ w.lt.hdr.deactivation_slot = slot
         \/ InWindow(w.lt.hdr.deactivation_slot) )
       => LET r == process_close_lookup_table(w, in)
          IN /\ r.res # "Ok"
             /\ r.w.lt.data_len = w.lt.data_len
             /\ r.w.lt.lamports = w.lt.lamports
             /\ r.w.recipient = w.recipient
             /\ r.w = w
  /\ (last.op = "Close" /\ last.res = "Ok") =>
       /\ lt.hdr.deactivation_slot # U64_MAX
       /\ lt.hdr.deactivation_slot < slot
       /\ ~InWindow(lt.hdr.deactivation_slot)

\* A Close has just been refused on a table deactivated in an earlier slot
\* that is still in the window.
C12_Witness ==
  /\ last = [op |-> "Close", res |-> "InvalidArgument", wrote |-> FALSE]
  /\ Live(lt)
  /\ lt.hdr.authority_tag = 1
  /\ lt.hdr.deactivation_slot < slot
  /\ InWindow(lt.hdr.deactivation_slot)

\* Slot s is neither the clock's slot nor in the SlotHashes window.
Elapsed(s) == s # slot /\ ~InWindow(s)

\* The slots of a deactivation that the clock of the model outlasts.
EarlySlots == 0..(MaxSlot - MAX_ENTRIES - 1)

\* A Close signed by the stored authority, naming a writable recipient that
\* is not the table.
ByAuthorityToRecipient(in) ==
  /\ in.authority_signer
  /\ in.authority = lt.hdr.authority
  /\ in.recipient_writable
  /\ in.recipient # LT_KEY

\* C13 as stated: with the clock advancing, a table deactivated at slot S
\* comes to a point after which S is neither the clock's slot nor in the
\* window, and from then on every Close signed by the stored authority that
\* names a writable recipient other than the table returns Ok.
C13_AsStated ==
  /\ \A S \in EarlySlots :
       []((Live(lt) /\ lt.hdr.deactivation_slot = S) => <>[]Elapsed(S))
  /\ []((Live(lt) /\ is_deactivated(lt.hdr) /\ Elapsed(lt.hdr.deactivation_slot))
          => \A in \in CloseInputs :
               ByAuthorityToRecipient(in)
                 => process_close_lookup_table(World, in).res = "Ok")

\* C13, amended: as above, for the Closes that also pass the table as
\* writable and the SlotHashes sysvar as the oracle, the table's and the
\* recipient's balances together fitting a u64.
C13_EventuallyClosable ==
  /\ \A S \in EarlySlots :
       []((Live(lt) /\ lt.hdr.deactivation_slot = S) => <>[]Elapsed(S))
  /\ []((Live(lt) /\ is_deactivated(lt.hdr) /\ Elapsed(lt.hdr.deactivation_slot))
          => \A in \in CloseInputs :
               ( /\ ByAuthorityToRecipient(in)
                 /\ in.lt_writable
                 /\ in.slot_hashes_key = SLOTHASHES_ID
                 /\ lt.lamports + recipient <= U64_MAX )
               => process_close_lookup_table(World, in).res = "Ok")

\* A table deactivated in slot 0 has just been closed, the clock having
\* left slot 0 and the window after it behind.
C13_Witness ==
  /\ last = [op |-> "Close", res |-> "Ok", wrote |-> TRUE]
  /\ lt.hdr.deactivation_slot = 0
  /\ lt.hdr.deactivation_slot + MAX_ENTRIES < slot
  /\ Elapsed(0)

\* C14: a Close that returns Ok adds to the recipient exactly the balance the
\* table had, leaves the table without lamports and without data, and so
\* keeps the sum of the two balances (within u64, the payer untouched); a
\* Close that names the table itself as recipient fails and changes nothing.
C14_CloseConservesValue ==
  /\ \A w \in Worlds, in \in CloseInputs :
       LET r == process_close_lookup_table(w, in)
       IN /\ r.res = "Ok" =>
               /\ r.w.recipient = w.recipient + w.lt.lamports
               /\ r.w.recipient <= U64_MAX
               /\ r.w.lt.lamports = 0
               /\ r.w.lt.data_len = 0
               /\ r.w.lt.addrs = <<>>
               /\ r.w.lt.lamports + r.w.recipient = w.lt.lamports + w.recipient
               /\ r.w.payer = w.payer
               /\ in.recipient # LT_KEY
          /\ in.recipient = LT_KEY => (r.res # "Ok" /\ r.w = w)
  /\ (last.op = "Close" /\ last.res = "Ok") =>
       /\ lt.lamports = 0
       /\ lt.data_len = 0
       /\ lt.addrs = <<>>

\* A Close has just moved a balance to the recipient: the table is empty
\* and without lamports, and the recipient holds more than it began with.
C14_Witness ==
  /\ last = [op |-> "Close", res |-> "Ok", wrote |-> TRUE]
  /\ lt.owner = PROGRAM_ID
  /\ lt.lamports = 0
  /\ lt.data_len = 0
  /\ recipient > U64_MAX - RecipientRoom

\* C15: every Freeze, Extend, Deactivate and Close that returns Ok was made
\* with an authority account that signed and whose key is the authority the
\* header held at the call; a call whose authority account signs with
\* another key fails and changes nothing.
C15_OnlyStoredAuthorityMutates ==
  \A w \in Worlds :
    LET Authorised(in, r) ==
          /\ r.res = "Ok" =>
               (in.authority_signer /\ in.authority = w.lt.hdr.authority)
          /\ (in.authority_signer /\ in.authority # w.lt.hdr.authority) =>
               (r.res # "Ok" /\ r.w = w)
    IN /\ \A in \in AuthorityInputs :
            /\ Authorised(in, process_freeze_lookup_table(w, in))
            /\ Authorised(in, process_deactivate_lookup_table(w, in))
       /\ \A in \in ExtendCalls(lt) :
            Authorised(in, process_extend_lookup_table(w, in))
       /\ \A in \in CloseInputs :
            Authorised(in, process_close_lookup_table(w, in))

\* An Extend signed by a key that is not the table's authority has just been
\* refused, on a table that holds addresses and is neither frozen nor
\* deactivated.
C15_Witness ==
  /\ last = [op |-> "Extend", res |-> "IncorrectAuthority", wrote |-> FALSE]
  /\ Live(lt)
  /\ EntryCount(lt) > 0
  /\ lt.hdr.authority_tag = 1
  /\ lt.hdr.deactivation_slot = U64_MAX

\* C16: a frozen table is never deactivated (its deactivation_slot is
\* u64::MAX); on it every Deactivate and every Close fails and no Create
\* changes the table; and no step of any kind changes its header, its
\* addresses, its size or its owner, so it stays frozen.
C16_FrozenIsTerminal ==
  /\ [](Frozen =>
          /\ lt.hdr.deactivation_slot = U64_MAX
          /\ \A in \in AuthorityInputs :
               process_deactivate_lookup_table(World, in).res # "Ok"
          /\ \A in \in CloseInputs :
               process_close_lookup_table(World, in).res # "Ok"
          /\ \A in \in CreateInputs :
               process_create_lookup_table(World, in).w.lt = lt)
  /\ [][Frozen => /\ lt'.hdr = lt.hdr
                  /\ lt'.addrs = lt.addrs
                  /\ lt'.data_len = lt.data_len
                  /\ lt'.owner = lt.owner]_vars

\* A Close signed on a frozen table has just been refused as Immutable, in
\* a later slot than the table's last Extend.
C16_Witness ==
  /\ Frozen
  /\ last = [op |-> "Close", res |-> "Immutable", wrote |-> FALSE]
  /\ lt.hdr.last_extended_slot < slot

\* C17 as stated: Freeze returns the error of the first check that fails in
\* the order ownership, authority signature, already frozen, already deactivating, no
\* address entries, authority key mismatch (so a Freeze of a deactivating or
\* of an empty table by a signer that is not its authority returns the
\* argument error or the instruction-data error, not the authority error).
C17_FreezeCheckOrder ==
  \A w \in Worlds, in \in AuthorityInputs :
    process_freeze_lookup_table(w, in).res =
      IF w.lt.owner # PROGRAM_ID THEN "InvalidAccountOwner"
      ELSE IF ~in.authority_signer THEN "MissingRequiredSignature"
      ELSE IF w.lt.hdr.authority_tag = 0 THEN "Immutable"
      ELSE IF w.lt.hdr.deactivation_slot # U64_MAX THEN "InvalidArgument"
      ELSE IF w.lt.data_len <= LOOKUP_TABLE_META_SIZE THEN "InvalidInstructionData"
      ELSE IF w.lt.hdr.authority # in.authority THEN "IncorrectAuthority"
      ELSE "Ok"

\* C17, amended: Freeze returns the error of the first check that fails in
\* the order ownership, authority signature, already frozen, authority key
\* mismatch, already deactivating, no address entries (so a Freeze of a
\* deactivating or of an empty table by a signer that is not its authority
\* returns the authority error), and Ok when none fails.
C17_FreezeChecksAuthorityFourth ==
  \A w \in Worlds, in \in AuthorityInputs :
    process_freeze_lookup_table(w, in).res =
      IF w.lt.owner # PROGRAM_ID THEN "InvalidAccountOwner"
      ELSE IF ~in.authority_signer THEN "MissingRequiredSignature"
      ELSE IF w.lt.hdr.authority_tag = 0 THEN "Immutable"
      ELSE IF w.lt.hdr.authority # in.authority THEN "IncorrectAuthority"
      ELSE IF w.lt.hdr.deactivation_slot # U64_MAX THEN "InvalidArgument"
      ELSE IF w.lt.data_len <= LOOKUP_TABLE_META_SIZE THEN "InvalidInstructionData"
      ELSE "Ok"

\* A Freeze signed by a key that is not the authority has just been refused
\* with the authority error, on a deactivated table that holds addresses.
C17_Witness ==
  /\ last = [op |-> "Freeze", res |-> "IncorrectAuthority", wrote |-> FALSE]
  /\ Live(lt)
  /\ EntryCount(lt) > 0
  /\ lt.hdr.authority_tag = 1
  /\ lt.hdr.deactivation_slot # U64_MAX

\* C18: a table that has been created and not closed is 56 + 32 x (number
\* of entries) bytes long, and a table of the program is never of another
\* length than that or 0 (closed); a Create that initialises gives it 56
\* bytes, an Extend of k addresses that returns Ok grows it by exactly
\* 32 x k bytes and k entries, and Freeze and Deactivate leave its length as
\* it was.
C18_SizeIsHeaderPlusEntries ==
  /\ Live(lt) =>
       /\ lt.data_len = 56 + 32 * Len(lt.addrs)
       /\ (lt.data_len - 56) % 32 = 0
  /\ lt.owner = PROGRAM_ID => (Live(lt) \/ lt.data_len = 0)
  /\ \A in \in CreateInputs :
       LET r == process_create_lookup_table(World, in)
       IN (r.res = "Ok" /\ r.w # World) => r.w.lt.data_len = 56
  /\ \A w \in Worlds :
       /\ \A in \in ExtendCalls(lt) :
            LET r == process_extend_lookup_table(w, in)
                k == Len(in.new_addresses)
            IN r.res = "Ok" =>
                 /\ r.w.lt.data_len = w.lt.data_len + 32 * k
                 /\ Len(r.w.lt.addrs) = Len(w.lt.addrs) + k
       /\ \A in \in AuthorityInputs :
            /\ process_freeze_lookup_table(w, in).w.lt.data_len = w.lt.data_len
            /\ process_deactivate_lookup_table(w, in).w.lt.data_len = w.lt.data_len

\* Two Extends of 3 addresses have brought the table to 6 entries and
\* 56 + 192 bytes.
C18_Witness ==
  /\ last.op = "Extend" /\ last.res = "Ok"
  /\ Len(lt.addrs) = 6
  /\ lt.data_len = 248

\* C19: an Extend that returns Ok on a table of n entries with k new
\* addresses leaves the entries 0..n-1 as they were and stores the new
\* addresses, in the order given, as the entries n..n+k-1 (and no more);
\* Freeze and Deactivate leave every entry as it was.
C19_AddressListAppendOnly ==
  \A w \in Worlds :
    /\ \A in \in ExtendCalls(lt) :
         LET r == process_extend_lookup_table(w, in)
             n == Len(w.lt.addrs)
             k == Len(in.new_addresses)
         IN r.res = "Ok" =>
              /\ Len(r.w.lt.addrs) = n + k
              /\ \A i \in 1..n : r.w.lt.addrs[i] = w.lt.addrs[i]
              /\ \A j \in 1..k : r.w.lt.addrs[n + j] = in.new_addresses[j]
    /\ \A in \in AuthorityInputs :
         /\ process_freeze_lookup_table(w, in).w.lt.addrs = w.lt.addrs
         /\ process_deactivate_lookup_table(w, in).w.lt.addrs = w.lt.addrs

\* A second Extend of 3 addresses has just been appended to the 3 of the
\* first.
C19_Witness ==
  /\ last.op = "Extend" /\ last.res = "Ok"
  /\ lt.addrs = <<"a", "b", "a", "a", "b", "a">>

\* C20: after an Extend that returned Ok, last_extended_slot is the clock's
\* slot and last_extended_slot_start_index is the number of entries the
\* table held before the first Extend that succeeded on it in this slot
\* (Extends of one slot share the index, in slot 0 on a fresh table as
\* well); the index is that number itself, within 0..255 and at most the
\* table's number of entries.  In one call: the Extend stores the clock's
\* slot, and the number of entries at entry unless the header already
\* carries the clock's slot.
C20_ExtendSlotBookkeeping ==
  /\ (last.op = "Extend" /\ last.res = "Ok") => slotStart >= 0
  /\ (Live(lt) /\ slotStart >= 0) =>
       /\ lt.hdr.last_extended_slot = slot
       /\ lt.hdr.last_extended_slot_start_index = slotStart
       /\ lt.hdr.last_extended_slot_start_index \in 0..255
       /\ lt.hdr.last_extended_slot_start_index <= EntryCount(lt)
  /\ \A w \in Worlds, in \in ExtendCalls(lt) :
       LET r == process_extend_lookup_table(w, in)
       IN r.res = "Ok" =>
            /\ r.w.lt.hdr.last_extended_slot = slot
            /\ r.w.lt.hdr.last_extended_slot_start_index =
                 IF w.lt.hdr.last_extended_slot = slot
                 THEN w.lt.hdr.last_extended_slot_start_index
                 ELSE Len(w.lt.addrs)

\* The second Extend of slot 0 has just succeeded on a table created in slot
\* 0: the header carries slot 0 and the start index 0 of the first.
C20_Witness ==
  /\ last.op = "Extend" /\ last.res = "Ok"
  /\ slot = 0
  /\ EntryCount(lt) = 6
  /\ slotStart = 0
  /\ lt.hdr.last_extended_slot_start_index = 0

\* An Extend has just succeeded in a later slot than the table's first: the
\* start index is the 3 entries the table held.
C20_WitnessLaterSlot ==
  /\ last.op = "Extend" /\ last.res = "Ok"
  /\ slot = 2
  /\ EntryCount(lt) = 6
  /\ lt.hdr.last_extended_slot_start_index = 3

\* C21 as stated: whenever Freeze, Extend, Deactivate or Close returns an
\* error, the handler itself has left the header, the addresses, the size
\* and every balance as they were at the call.
C21_AsStated ==
  \A w \in Worlds :
    /\ \A in \in AuthorityInputs :
         LET f == process_freeze_lookup_table(w, in)
             d == process_deactivate_lookup_table(w, in)
         IN /\ f.res # "Ok" => f.w = w
            /\ d.res # "Ok" => d.w = w
    /\ \A in \in ExtendCalls(lt) :
         LET r == process_extend_lookup_table(w, in)
         IN r.res # "Ok" => r.w = w
    /\ \A in \in CloseInputs :
         LET r == process_close_lookup_table(w, in)
         IN r.res # "Ok" => r.w = w

\* C21, amended: a Freeze or a Deactivate that returns an error has written
\* nothing.  An Extend that returns an error has written nothing either,
\* unless it fails after its capacity checks (the table account not
\* writable, the payer not a signer, the payer short of the top-up): then
\* it has changed no balance, but has stored the clock's slot and the start
\* index and, when the table was writable, grown the table and copied the
\* addresses.  A Close that returns an error has written nothing, unless it
\* fails because the table account is not writable: then it has already
\* added the table's balance to the recipient's.
C21_ChecksBeforeWrites ==
  \A w \in Worlds :
    /\ \A in \in AuthorityInputs :
         LET f == process_freeze_lookup_table(w, in)
             d == process_deactivate_lookup_table(w, in)
         IN /\ f.res # "Ok" => f.w = w
            /\ d.res # "Ok" => d.w = w
    /\ \A in \in ExtendCalls(lt) :
         LET r == process_extend_lookup_table(w, in)
             n == Len(w.lt.addrs)
             k == Len(in.new_addresses)
             shortfall == Max(minimum_balance(56 + 32 * (n + k)), 1) - w.lt.lamports
             bookkeeping ==
               IF w.lt.hdr.last_extended_slot = slot THEN w.lt.hdr
               ELSE [w.lt.hdr EXCEPT !.last_extended_slot = slot,
                                     !.last_extended_slot_start_index = n]
         IN (r.res # "Ok" /\ r.w # w) =>
              /\ w.lt.data_len >= LOOKUP_TABLE_META_SIZE
              /\ in.authority_signer /\ in.authority = w.lt.hdr.authority
              /\ k > 0 /\ n + k <= 256
              /\ r.w.payer = w.payer
              /\ r.w.recipient = w.recipient
              /\ r.w.lt.lamports = w.lt.lamports
              /\ r.w.lt.hdr = bookkeeping
              /\ IF ~in.lt_writable
                 THEN /\ r.res = "Immutable"
                      /\ r.w.lt.data_len = w.lt.data_len
                      /\ r.w.lt.addrs = w.lt.addrs
                 ELSE /\ shortfall > 0
                      /\ \/ ~in.payer_signer /\ r.res = "MissingRequiredSignature"
                         \/ w.payer < shortfall /\ r.res = "InsufficientFunds"
                      /\ r.w.lt.data_len = w.lt.data_len + 32 * k
                      /\ r.w.lt.addrs = w.lt.addrs \o in.new_addresses
    /\ \A in \in CloseInputs :
         LET r == process_close_lookup_table(w, in)
         IN (r.res # "Ok" /\ r.w # w) =>
              /\ ~in.lt_writable
              /\ in.recipient_writable
              /\ r.res = "Immutable"
              /\ r.w = [w EXCEPT !.recipient = w.recipient + w.lt.lamports]

\* A Close that named the table as read-only has just returned Immutable
\* after writing the recipient's balance; the runtime has kept the balances
\* of before the call.
C21_Witness ==
  /\ last = [op |-> "Close", res |-> "Immutable", wrote |-> TRUE]
  /\ Live(lt)
  /\ lt.lamports > 0
  /\ recipient = U64_MAX - RecipientRoom

\* A Close has just returned Ok.
JustClosed == last.op = "Close" /\ last.res = "Ok"

\* No Create can succeed on the table's address: each fails and writes
\* nothing, and the one for the authority, slot and bump of the address
\* fails with the stale-slot error when the payer signs and the oracle is
\* SlotHashes.
NoCreateSucceeds ==
  /\ \A in \in CreateInputs :
       LET r == process_create_lookup_table(World, in)
       IN /\ r.res # "Ok"
          /\ r.w = World
          /\ ( /\ in.payer_signer
               /\ in.slot_hashes_key = SLOTHASHES_ID
               /\ LT_KEY = DerivedAddress(in.authority, in.untrusted_recent_slot,
                                          in.bump_seed) )
             => r.res = "InvalidInstructionData"
  /\ last.op = "Create" => last.res # "Ok"

\* C22: once a Close has returned Ok, no later Create on the table's
\* address succeeds, whether the runtime has reclaimed the account or not:
\* the slot of the address is no newer than the deactivation slot, which
\* had left the SlotHashes window, so that the Create fails with the
\* stale-slot error instead of returning Ok on the table it owns or
\* initialising it again.
C22_ClosedStaysClosed ==
  /\ [](JustClosed => []NoCreateSucceeds)
  /\ [](JustClosed => ~InWindow(0) /\ ~InWindow(lt.hdr.deactivation_slot))

\* After a Close the runtime has reclaimed the account, and a Create for
\* the same authority, slot and bump has just failed with the stale-slot
\* error.
C22_Witness ==
  /\ last = [op |-> "Create", res |-> "InvalidInstructionData", wrote |-> FALSE]
  /\ lt = EmptyAccount
  /\ recipient > U64_MAX - RecipientRoom

\* The balance that exempts an account of data_len bytes from rent.
RentExempt(data_len) == Max(minimum_balance(data_len), 1)

\* C23: a table that has been created and not closed holds at least
\* max(1, minimum_balance(its size)) lamports in every reachable state: a
\* Create that initialises and an Extend that returns Ok leave it at least
\* that balance for the size they leave, and Freeze and Deactivate leave the
\* balance as it was.
C23_LiveTableRentExempt ==
  /\ Live(lt) => lt.lamports >= RentExempt(lt.data_len)
  /\ \A in \in CreateInputs :
       LET r == process_create_lookup_table(World, in)
       IN (r.res = "Ok" /\ r.w # World) =>
            r.w.lt.lamports >= RentExempt(r.w.lt.data_len)
  /\ \A w \in Worlds :
       /\ \A in \in ExtendCalls(lt) :
            LET r == process_extend_lookup_table(w, in)
            IN r.res = "Ok" =>
                 /\ r.w.lt.lamports >= RentExempt(r.w.lt.data_len)
                 /\ r.w.lt.lamports >= w.lt.lamports
       /\ \A in \in AuthorityInputs :
            /\ process_freeze_lookup_table(w, in).w.lt.lamports = w.lt.lamports
            /\ process_deactivate_lookup_table(w, in).w.lt.lamports = w.lt.lamports

\* An Extend has just grown a table that lamports had been sent to, without
\* a top-up: it holds more than the rent-exempt balance of its size.
C23_Witness ==
  /\ last.op = "Extend" /\ last.res = "Ok"
  /\ Live(lt)
  /\ lt.data_len > LOOKUP_TABLE_META_SIZE
  /\ lt.lamports > RentExempt(lt.data_len)
  /\ payer = PayerInit - RentExempt(LOOKUP_TABLE_META_SIZE)

\* The handler got past its ownership and signature checks, behind which it
\* takes the header from the buffer.
PastOwnerAndSigner(r) ==
  r.res \notin {"InvalidAccountOwner", "MissingRequiredSignature"}

\* C24: whenever a Freeze, an Extend, a Deactivate or a Close passes its
\* ownership and signature checks (on a table closed to zero length and
\* still owned by the program as well), the table's buffer is at least 56
\* bytes long, so that the header at offsets 4..56 is inside the buffer and
\* length - 56 does not underflow.
C24_HeaderInsideBuffer ==
  /\ \A in \in AuthorityInputs :
       /\ ( /\ lt.owner = PROGRAM_ID
            /\ in.authority_signer ) => lt.data_len >= LOOKUP_TABLE_META_SIZE
       /\ \A w \in Worlds :
            /\ PastOwnerAndSigner(process_freeze_lookup_table(w, in))
                 => lt.data_len >= LOOKUP_TABLE_META_SIZE
            /\ PastOwnerAndSigner(process_deactivate_lookup_table(w, in))
                 => lt.data_len >= LOOKUP_TABLE_META_SIZE
  /\ \A w \in Worlds :
       /\ \A in \in ExtendCalls(lt) :
            PastOwnerAndSigner(process_extend_lookup_table(w, in))
              => lt.data_len >= LOOKUP_TABLE_META_SIZE
       /\ \A in \in CloseInputs :
            ( /\ PastOwnerAndSigner(process_close_lookup_table(w, in))
              /\ in.recipient # LT_KEY )
            => lt.data_len >= LOOKUP_TABLE_META_SIZE

====
